---- MODULE Spec2Model ----
(***************************************************************************)
(* A model of the request listener of papack/api (src/core/api.ts): the    *)
(* dispatcher that serves one request against the route table, the body    *)
(* read loop, the four route kinds, handleError and the SSE session        *)
(* (cleanups / closed / runCleanup / emit / onCleanup).                    *)
(***************************************************************************)
EXTENDS Integers, Sequences, FiniteSets, TLC

\* ------------------------------------------------------------------ bounds
\* The most bytes the client sends in one request body.
MaxBodyLen == 3
\* The most bytes in one network chunk.
MaxChunkLen == 2
\* The configured options.maxRequestSize when the option is given.
SmallLimit == 2
\* The most chunks a Blob handler's stream delivers.
MaxPipeChunks == 2
\* The most onCleanup registrations one SSE handler makes.
MaxCleanups == 3
\* The most close signals (request close, response close, repeats) delivered.
MaxCloseSignals == 3
\* The most emit calls one SSE handler makes.
MaxEmits == 2
\* The most rpc/sse/blob/upload registrations made on one Api.
MaxRegistrations == 3

\* ------------------------------------------------------------ value domains
\* Bytes of a request body: an ASCII byte, the lead byte and the continuation
\* byte of a two-byte UTF-8 sequence.
Bytes == {65, 195, 169}

\* U+FFFD, what Buffer.toString("utf8") yields for an ill-formed sequence.
ReplacementChar == 65533

Methods == {"GET", "POST", "PUT", "OPTIONS"}

Paths == {"/rpc", "/sse", "/blob", "/upload", "/nope", "/rpc/"}

\* The cleanup functions an SSE handler may pass to onCleanup.
Callbacks == {"c1", "c2"}

\* options?.maxRequestSize ?? 1024 * 1024
DefaultMaxRequestSize == 1024 * 1024

Quote(code) == "\"" \o code \o "\""

\* new XError(): statusCode, body = quoted code, message = code (super(code)).
HttpError(cls, statusCode, code) ==
    [kind |-> "HttpError", cls |-> cls, statusCode |-> statusCode,
     body |-> Quote(code), code |-> code, message |-> code]

HttpErrors ==
    { HttpError("NotFoundError", 404, "NOT_FOUND"),
      HttpError("MethodNotAllowedError", 405, "METHOD_NOT_ALLOWED"),
      HttpError("BadRequestError", 400, "BAD_REQUEST"),
      HttpError("UnauthorizedError", 401, "UNAUTHORIZED"),
      HttpError("ForbiddenError", 403, "FORBIDDEN"),
      HttpError("InternalServerError", 500, "INTERNAL_ERROR"),
      HttpError("NotImplementedError", 501, "NOT_IMPLEMENTED") }

\* ValidationError of @papack/schema: carries its own code.
ValidationErrors ==
    { [kind |-> "ValidationError", cls |-> "ValidationError", statusCode |-> 0,
       body |-> "", code |-> "INVALID_EMAIL", message |-> "email is invalid"] }

\* Anything else a handler can throw: an Error, a string, an object that only
\* looks like an HttpError.
OtherThrown ==
    { [kind |-> "Error", cls |-> "Error", statusCode |-> 0,
       body |-> "", code |-> "", message |-> "db password rejected"],
      [kind |-> "string", cls |-> "", statusCode |-> 0,
       body |-> "", code |-> "", message |-> "oops"],
      [kind |-> "object", cls |-> "Object", statusCode |-> 418,
       body |-> "\"TEAPOT\"", code |-> "TEAPOT", message |-> "fake"] }

Thrown == HttpErrors \cup ValidationErrors \cup OtherThrown

NoError ==
    [kind |-> "none", cls |-> "", statusCode |-> 0,
     body |-> "", code |-> "", message |-> ""]

\* ------------------------------------------------------------------- state
VARIABLES
    options,      \* the constructor's options argument (fields may be absent)
    routes,       \* this.routes: path -> {kind, handler}, "none" when absent
    calls,        \* the rpc/sse/blob/upload calls made on the Api, in order
    req,          \* the request: method, url, body (req.body, once assigned)
    sent,         \* every body byte the client has sent so far, in order
    chunksRead,   \* how many chunks the core's read loop has taken
    body,         \* the loop's `body` (code points decoded so far)
    size,         \* the loop's `size`
    res,          \* the ServerResponse
    pc,           \* where the listener is
    handlerCalls, \* how often the route's handler has been invoked
    caught,       \* the value the listener's catch received, or NoError
    result,       \* what the rpc/blob handler returned
    pipe,         \* the Blob stream piped into res
    cleanups,     \* the SSE session's cleanups array
    closed,       \* the SSE session's closed flag
    drain,        \* runCleanup's loop: "idle", "awaiting" or "done"
    drainIdx,     \* how many entries of cleanups the loop has taken
    invoked,      \* the cleanup functions invoked so far, in order
    swallowed,    \* how many cleanup failures the loop's catch has swallowed
    listening,    \* whether runCleanup is registered on req/res "close"
    closeSignals, \* how many close signals have been delivered
    emits,        \* how many emit calls the handler has made
    inbound,      \* upload: chunks in the request stream, not yet read
    seen,         \* upload: the chunks the handler has read from ctx.req
    sentChunks    \* upload: every chunk the client has sent, in order

vars == << options, routes, calls, req, sent, chunksRead, body, size, res, pc,
           handlerCalls, caught, result, pipe, cleanups, closed, drain,
           drainIdx, invoked, swallowed, listening, closeSignals, emits,
           inbound, seen, sentChunks >>

sseVars == << cleanups, closed, drain, drainIdx, invoked, swallowed,
              listening, closeSignals, emits >>

uploadVars == << inbound, seen, sentChunks >>

bodyVars == << sent, chunksRead, body, size, uploadVars >>

\* ----------------------------------------------------------- the response
\* A fresh ServerResponse: statusCode 200, nothing set, nothing sent.
NewResponse ==
    [statusCode |-> 200, headers |-> {}, chunks |-> << >>, ended |-> FALSE,
     headersSent |-> FALSE, wireStatus |-> 0, wireHeaders |-> {}]

\* res.setHeader(name, value): replaces the header of that name; headers that
\* are already on the wire cannot change.
setHeader(r, name, value) ==
    IF r.headersSent THEN r
    ELSE [r EXCEPT !.headers =
            { h \in r.headers : h[1] # name } \cup { << name, value >> }]

\* res.statusCode = n
setStatus(r, n) == [r EXCEPT !.statusCode = n]

\* The first write or end puts the status line and the headers on the wire.
flushHeaders(r) ==
    IF r.headersSent THEN r
    ELSE [r EXCEPT !.headersSent = TRUE, !.wireStatus = r.statusCode,
                   !.wireHeaders = r.headers]

\* res.write(data)
write(r, data) ==
    IF r.ended THEN r
    ELSE [flushHeaders(r) EXCEPT !.chunks = Append(r.chunks, data)]

\* res.end(data): an empty or absent data writes nothing.
end(r, data) ==
    IF r.ended THEN r
    ELSE [flushHeaders(r) EXCEPT
            !.chunks = IF data = "" THEN r.chunks ELSE Append(r.chunks, data),
            !.ended = TRUE]

\* ------------------------------------------------------------- the options
\* new Api(ctx, options): each of maxRequestSize and cors given or not.
OptionSets ==
    { [none |-> TRUE],
      [maxRequestSize |-> SmallLimit],
      [cors |-> [origin |-> "https://app.example"]],
      [maxRequestSize |-> SmallLimit, cors |-> [origin |-> "https://app.example"]] }

\* this.cors = options?.cors
hasCors(o) == "cors" \in DOMAIN o

\* const maxSize = options?.maxRequestSize ?? 1024 * 1024
maxSize(o) ==
    IF "maxRequestSize" \in DOMAIN o THEN o.maxRequestSize
    ELSE DefaultMaxRequestSize

\* The CORS block setting the origin header alone.
corsHeaders_OriginOnly(o, r) ==
    IF hasCors(o)
    THEN setHeader(r, "Access-Control-Allow-Origin", o.cors.origin)
    ELSE r

\* The three headers the listener sets first when this.cors is set.
corsHeaders(o, r) ==
    IF hasCors(o)
    THEN setHeader(setHeader(setHeader(r,
             "Access-Control-Allow-Origin", o.cors.origin),
             "Access-Control-Allow-Credentials", "true"),
             "Access-Control-Allow-Headers", "content-type")
    ELSE r

\* ---------------------------------------------------------- the route table
Kinds == {"rpc", "sse", "blob", "upload"}

\* The handler functions an application may register.
Handlers == {"h1", "h2"}

\* A registration that leaves a path that already has a route as it is.
register_KeepsFirst(table, path, kind, handler) ==
    IF table[path].kind = "none"
    THEN [table EXCEPT ![path] = [kind |-> kind, handler |-> handler]]
    ELSE table

\* this.routes.set(path, {kind, handler}): a Map, so the entry of exactly
\* this path string is created or replaced.
register(table, path, kind, handler) ==
    [table EXCEPT ![path] = [kind |-> kind, handler |-> handler]]

\* routes = new Map(): no path has a route.
NoRoutes == [p \in Paths |-> [kind |-> "none", handler |-> "none"]]

\* The registrations the served application makes before listen: one path of
\* each kind.
BootCalls ==
    << [kind |-> "rpc", path |-> "/rpc", handler |-> "h1"],
       [kind |-> "sse", path |-> "/sse", handler |-> "h1"],
       [kind |-> "blob", path |-> "/blob", handler |-> "h1"],
       [kind |-> "upload", path |-> "/upload", handler |-> "h1"] >>

RECURSIVE registerAll(_, _)
registerAll(table, cs) ==
    IF cs = << >> THEN table
    ELSE registerAll(register(table, cs[1].path, cs[1].kind, cs[1].handler),
                     Tail(cs))

Registered == registerAll(NoRoutes, BootCalls)

\* The method a route kind's branch accepts.
requiredMethod(kind) ==
    IF kind \in {"rpc", "upload"} THEN "POST" ELSE "GET"

\* ------------------------------------------------------------------- UTF-8
IsContinuation(b) == b >= 128 /\ b <= 191

IsLead2(b) == b >= 194 /\ b <= 223

\* chunk.toString("utf8"): each well-formed sequence becomes its code point,
\* each byte that is part of no well-formed sequence becomes U+FFFD.
RECURSIVE toStringUtf8(_)
toStringUtf8(bytes) ==
    IF bytes = << >> THEN << >>
    ELSE LET b == Head(bytes)
             rest == Tail(bytes)
         IN IF b < 128 THEN << b >> \o toStringUtf8(rest)
            ELSE IF IsLead2(b) /\ rest # << >> /\ IsContinuation(Head(rest))
                 THEN << (b - 192) * 64 + (Head(rest) - 128) >>
                      \o toStringUtf8(Tail(rest))
                 ELSE << ReplacementChar >> \o toStringUtf8(rest)

\* The chunks a client may send: non-empty byte strings of at most MaxChunkLen.
RECURSIVE ByteStrings(_)
ByteStrings(n) ==
    IF n = 0 THEN { << >> }
    ELSE LET shorter == ByteStrings(n - 1)
         IN shorter \cup { Append(s, b) : s \in { t \in shorter : Len(t) = n - 1 },
                                          b \in Bytes }

Chunks == ByteStrings(MaxChunkLen) \ { << >> }

\* ---------------------------------------------------------- JSON.stringify
JsUndefined == [t |-> "undefined"]

\* What an RPC handler may return.
Results ==
    { JsUndefined,
      [t |-> "null"],
      [t |-> "string", v |-> "hi"],
      [t |-> "number", v |-> 1],
      [t |-> "object", fields |-> << >>],
      [t |-> "object", fields |-> << << "a", [t |-> "number", v |-> 1] >> >>],
      [t |-> "function"],
      [t |-> "circular"] }

Digits == << "0", "1", "2", "3", "4", "5", "6", "7", "8", "9" >>

RECURSIVE stringifyFields(_, _)
RECURSIVE stringify(_)
\* JSON.stringify(v): [throws, defined, text]. A circular structure throws a
\* TypeError; a function has no JSON text (the call returns undefined).
stringify(v) ==
    CASE v.t = "null" -> [throws |-> FALSE, defined |-> TRUE, text |-> "null"]
      [] v.t = "string" ->
            [throws |-> FALSE, defined |-> TRUE, text |-> Quote(v.v)]
      [] v.t = "number" ->
            [throws |-> FALSE, defined |-> TRUE, text |-> Digits[v.v + 1]]
      [] v.t = "object" ->
            [throws |-> FALSE, defined |-> TRUE,
             text |-> "{" \o stringifyFields(v.fields, 1) \o "}"]
      [] v.t = "circular" -> [throws |-> TRUE, defined |-> FALSE, text |-> ""]
      [] OTHER -> [throws |-> FALSE, defined |-> FALSE, text |-> ""]

stringifyFields(fields, i) ==
    IF i > Len(fields) THEN ""
    ELSE (IF i > 1 THEN "," ELSE "")
         \o Quote(fields[i][1]) \o ":" \o stringify(fields[i][2]).text
         \o stringifyFields(fields, i + 1)

\* ------------------------------------------------------------- handleError
\* handleError trusting any thrown value that carries a statusCode and a body,
\* in place of `instanceof HttpError`.
handleError_DuckTyped(err, r) ==
    IF err.body # "" THEN end(setStatus(r, err.statusCode), err.body)
    ELSE IF err.kind = "ValidationError"
         THEN end(setStatus(r, 400), Quote(err.code))
         ELSE end(setStatus(r, 500), "\"INTERNAL_ERROR\"")

\* handleError(err, res): instanceof HttpError, then instanceof
\* ValidationError, then the catch-all.
handleError(err, r) ==
    IF err.kind = "HttpError" THEN end(setStatus(r, err.statusCode), err.body)
    ELSE IF err.kind = "ValidationError"
         THEN end(setStatus(r, 400), Quote(err.code))
         ELSE end(setStatus(r, 500), "\"INTERNAL_ERROR\"")

\* What the request stream throws into the read loop when the client aborts.
AbortedError ==
    [kind |-> "Error", cls |-> "Error", statusCode |-> 0,
     body |-> "", code |-> "ECONNRESET", message |-> "aborted"]

\* What JSON.stringify throws on a circular structure.
StringifyTypeError ==
    [kind |-> "Error", cls |-> "TypeError", statusCode |-> 0,
     body |-> "", code |-> "", message |-> "Converting circular structure to JSON"]

\* -------------------------------------------------------------------- Init
Requests ==
    { [method |-> m, url |-> u, bodySet |-> FALSE, body |-> << >>] :
        m \in Methods, u \in Paths }

SseInitial ==
    /\ cleanups = << >>
    /\ closed = FALSE
    /\ drain = "idle"
    /\ drainIdx = 0
    /\ invoked = << >>
    /\ swallowed = 0
    /\ listening = FALSE
    /\ closeSignals = 0
    /\ emits = 0

\* A constructed Api with its routes registered, and one request arriving.
RequestInitial(opts, rq) ==
    /\ options = opts
    /\ req = rq
    /\ sent = << >>
    /\ chunksRead = 0
    /\ body = << >>
    /\ size = 0
    /\ res = NewResponse
    /\ pc = "start"
    /\ handlerCalls = 0
    /\ caught = NoError
    /\ result = JsUndefined
    /\ pipe = "none"
    /\ inbound = << >>
    /\ seen = << >>
    /\ sentChunks = << >>
    /\ SseInitial

InitWith(opts, rq) ==
    /\ routes = Registered
    /\ calls = BootCalls
    /\ RequestInitial(opts, rq)

Init == \E opts \in OptionSets, rq \in Requests : InitWith(opts, rq)

\* const route = this.routes.get(req.url ?? "")
route == routes[req.url].kind

\* -------------------------------------------------- the listener, to a route
\* if (req.method === "OPTIONS") { 204; end; return }
Preflight ==
    /\ pc = "start"
    /\ req.method = "OPTIONS"
    /\ res' = end(setStatus(corsHeaders(options, res), 204), "")
    /\ pc' = "done"
    /\ UNCHANGED << options, routes, calls, req, bodyVars, handlerCalls, caught,
                    result, pipe, sseVars >>

\* A missing route answered as a method mismatch.
NotFound_As405 ==
    /\ pc = "start"
    /\ req.method # "OPTIONS"
    /\ route = "none"
    /\ res' = end(setStatus(corsHeaders(options, res), 405),
                  "\"METHOD_NOT_ALLOWED\"")
    /\ pc' = "done"
    /\ UNCHANGED << options, routes, calls, req, bodyVars, handlerCalls, caught,
                    result, pipe, sseVars >>

\* if (!route) { 404 "NOT_FOUND"; return }
NotFound ==
    /\ pc = "start"
    /\ req.method # "OPTIONS"
    /\ route = "none"
    /\ res' = end(setStatus(corsHeaders(options, res), 404), "\"NOT_FOUND\"")
    /\ pc' = "done"
    /\ UNCHANGED << options, routes, calls, req, bodyVars, handlerCalls, caught,
                    result, pipe, sseVars >>

\* upload: if (req.method !== "POST") { 405; return }
UploadMethodNotAllowed ==
    /\ pc = "start"
    /\ req.method # "OPTIONS"
    /\ route = "upload"
    /\ req.method # "POST"
    /\ res' = end(setStatus(corsHeaders(options, res), 405),
                  "\"METHOD_NOT_ALLOWED\"")
    /\ pc' = "done"
    /\ UNCHANGED << options, routes, calls, req, bodyVars, handlerCalls, caught,
                    result, pipe, sseVars >>

\* The client sends a chunk of an upload: it waits in the request stream
\* until somebody reads it.
UploadClientSends(chunk) ==
    /\ route = "upload"
    /\ req.method = "POST"
    /\ pc \in {"start", "uploadHandler"}
    /\ Len(sent) + Len(chunk) <= MaxBodyLen
    /\ sent' = sent \o chunk
    /\ sentChunks' = Append(sentChunks, chunk)
    /\ inbound' = Append(inbound, chunk)
    /\ UNCHANGED << options, routes, calls, req, chunksRead, body, size, seen, res,
                    pc, handlerCalls, caught, result, pipe, sseVars >>

\* The upload branch running the body read loop like the other kinds before
\* it calls the handler.
UploadInvoke_ReadsBody ==
    /\ pc = "start"
    /\ route = "upload"
    /\ req.method = "POST"
    /\ res' = corsHeaders(options, res)
    /\ chunksRead' = chunksRead + Len(inbound)
    /\ size' = Len(sent)
    /\ inbound' = << >>
    /\ req' = [req EXCEPT !.bodySet = TRUE]
    /\ handlerCalls' = handlerCalls + 1
    /\ pc' = "uploadHandler"
    /\ UNCHANGED << options, routes, calls, sent, body, seen, sentChunks, caught,
                    result, pipe, sseVars >>

\* upload: await route.handler(ctx), req untouched
UploadInvoke ==
    /\ pc = "start"
    /\ route = "upload"
    /\ req.method = "POST"
    /\ res' = corsHeaders(options, res)
    /\ handlerCalls' = handlerCalls + 1
    /\ pc' = "uploadHandler"
    /\ UNCHANGED << options, routes, calls, req, bodyVars, caught, result, pipe,
                    sseVars >>

\* Every other kind: on to the read loop.
BeginReadBody ==
    /\ pc = "start"
    /\ req.method # "OPTIONS"
    /\ route \in {"rpc", "sse", "blob"}
    /\ res' = corsHeaders(options, res)
    /\ pc' = "readBody"
    /\ UNCHANGED << options, routes, calls, req, bodyVars, handlerCalls, caught,
                    result, pipe, sseVars >>

\* ------------------------------------------------------------ the read loop
\* The read loop with `size >= maxSize` for `size > maxSize`.
ReadChunk_OffByOne(chunk) ==
    /\ pc = "readBody"
    /\ Len(sent) + Len(chunk) <= MaxBodyLen
    /\ sent' = sent \o chunk
    /\ chunksRead' = chunksRead + 1
    /\ size' = size + Len(chunk)
    /\ IF size' >= maxSize(options)
       THEN /\ res' = end(setStatus(res, 413), "\"PAYLOAD_TOO_LARGE\"")
            /\ pc' = "done"
            /\ body' = body
       ELSE /\ body' = body \o toStringUtf8(chunk)
            /\ UNCHANGED << res, pc >>
    /\ UNCHANGED << options, routes, calls, req, handlerCalls, caught, result, pipe,
                    sseVars, uploadVars >>

\* for await (const chunk of req) { size += chunk.length; if (size > maxSize)
\* { 413; return } body += chunk.toString("utf8") }
ReadChunk(chunk) ==
    /\ pc = "readBody"
    /\ Len(sent) + Len(chunk) <= MaxBodyLen
    /\ sent' = sent \o chunk
    /\ chunksRead' = chunksRead + 1
    /\ size' = size + Len(chunk)
    /\ IF size' > maxSize(options)
       THEN /\ res' = end(setStatus(res, 413), "\"PAYLOAD_TOO_LARGE\"")
            /\ pc' = "done"
            /\ body' = body
       ELSE /\ body' = body \o toStringUtf8(chunk)
            /\ UNCHANGED << res, pc >>
    /\ UNCHANGED << options, routes, calls, req, handlerCalls, caught, result, pipe,
                    sseVars, uploadVars >>

\* The request stream fails under the loop (the client aborts): the loop
\* throws into the listener's catch.
ReadBodyFails ==
    /\ pc = "readBody"
    /\ caught' = AbortedError
    /\ res' = handleError(AbortedError, res)
    /\ pc' = "done"
    /\ UNCHANGED << options, routes, calls, req, bodyVars, handlerCalls, result, pipe,
                    sseVars >>

\* reqWithBody.body = body
withBody(rq) == [rq EXCEPT !.bodySet = TRUE, !.body = body]

\* rpc / sse / blob: if (req.method !== <required>) { 405; return }
MethodNotAllowed ==
    /\ pc = "readBody"
    /\ req.method # requiredMethod(route)
    /\ req' = withBody(req)
    /\ res' = end(setStatus(res, 405), "\"METHOD_NOT_ALLOWED\"")
    /\ pc' = "done"
    /\ UNCHANGED << options, routes, calls, bodyVars, handlerCalls, caught, result,
                    pipe, sseVars >>

\* The rpc handler called without waiting for the read loop.
RpcInvoke_BeforeBody ==
    /\ pc = "start"
    /\ route = "rpc"
    /\ req.method = "POST"
    /\ res' = corsHeaders(options, res)
    /\ handlerCalls' = handlerCalls + 1
    /\ pc' = "rpcHandler"
    /\ UNCHANGED << options, routes, calls, req, bodyVars, caught, result,
                    pipe, sseVars >>

\* rpc: const result = await route.handler(ctx)
RpcInvoke ==
    /\ pc = "readBody"
    /\ route = "rpc"
    /\ req.method = "POST"
    /\ req' = withBody(req)
    /\ handlerCalls' = handlerCalls + 1
    /\ pc' = "rpcHandler"
    /\ UNCHANGED << options, routes, calls, bodyVars, res, caught, result, pipe,
                    sseVars >>

\* blob: const data = await route.handler(ctx)
BlobInvoke ==
    /\ pc = "readBody"
    /\ route = "blob"
    /\ req.method = "GET"
    /\ req' = withBody(req)
    /\ handlerCalls' = handlerCalls + 1
    /\ pc' = "blobHandler"
    /\ UNCHANGED << options, routes, calls, bodyVars, res, caught, result, pipe,
                    sseVars >>

\* sse: the three headers, req.on/res.on("close", runCleanup), then
\* await route.handler(sseCtx)
SseInvoke ==
    /\ pc = "readBody"
    /\ route = "sse"
    /\ req.method = "GET"
    /\ req' = withBody(req)
    /\ res' = setHeader(setHeader(setHeader(res,
                 "content-type", "text/event-stream"),
                 "cache-control", "no-cache"),
                 "connection", "keep-alive")
    /\ listening' = TRUE
    /\ handlerCalls' = handlerCalls + 1
    /\ pc' = "sseHandler"
    /\ UNCHANGED << options, routes, calls, bodyVars, caught, result, pipe, cleanups,
                    closed, drain, drainIdx, invoked, swallowed, closeSignals,
                    emits >>

\* ------------------------------------------------------- after the handler
\* The rpc branch without its `result !== undefined` test: the header is set
\* for every result.
rpcRespond_AlwaysJson(r, v) ==
    LET r1 == setHeader(r, "content-type", "application/json")
        json == IF v = JsUndefined
                THEN [throws |-> FALSE, defined |-> FALSE, text |-> ""]
                ELSE stringify(v)
    IN IF json.throws THEN handleError(StringifyTypeError, r1)
       ELSE end(r1, json.text)

\* rpc: if (result !== undefined) { setHeader(content-type); end(JSON.stringify
\* (result)) } else { end("") }; JSON.stringify throwing lands in the catch.
rpcRespond(r, v) ==
    IF v # JsUndefined
    THEN LET r1 == setHeader(r, "content-type", "application/json")
             json == stringify(v)
         IN IF json.throws THEN handleError(StringifyTypeError, r1)
            ELSE end(r1, json.text)
    ELSE end(r, "")

RpcHandlerReturns(v) ==
    /\ pc = "rpcHandler"
    /\ result' = v
    /\ res' = rpcRespond(res, v)
    /\ caught' = IF v # JsUndefined /\ stringify(v).throws
                 THEN StringifyTypeError ELSE caught
    /\ pc' = "done"
    /\ UNCHANGED << options, routes, calls, req, bodyVars, handlerCalls, pipe,
                    sseVars >>

\* The upload handler takes the next chunk: for await (const chunk of ctx.req)
UploadHandlerReads ==
    /\ pc = "uploadHandler"
    /\ inbound # << >>
    /\ seen' = Append(seen, Head(inbound))
    /\ inbound' = Tail(inbound)
    /\ UNCHANGED << options, routes, calls, req, sent, chunksRead, body, size,
                    sentChunks, res, pc, handlerCalls, caught, result, pipe,
                    sseVars >>

\* upload: res.statusCode = 200; res.end(`"OK"`)
UploadHandlerReturns ==
    /\ pc = "uploadHandler"
    /\ res' = end(setStatus(res, 200), "\"OK\"")
    /\ pc' = "done"
    /\ UNCHANGED << options, routes, calls, req, bodyVars, handlerCalls, caught,
                    result, pipe, sseVars >>

\* blob: if (Buffer.isBuffer(data)) res.end(data)
BlobHandlerReturnsBuffer ==
    /\ pc = "blobHandler"
    /\ result' = [t |-> "buffer"]
    /\ res' = end(res, "BUFFER")
    /\ pc' = "done"
    /\ UNCHANGED << options, routes, calls, req, bodyVars, handlerCalls, caught, pipe,
                    sseVars >>

\* blob: else data.pipe(res); the listener returns while the stream flows.
BlobHandlerReturnsStream ==
    /\ pc = "blobHandler"
    /\ result' = [t |-> "readable"]
    /\ pipe' = "flowing"
    /\ pc' = "done"
    /\ UNCHANGED << options, routes, calls, req, bodyVars, res, handlerCalls, caught,
                    sseVars >>

\* The piped stream delivers a chunk: pipe writes it to res.
PipeData ==
    /\ pipe = "flowing"
    /\ Len(res.chunks) < MaxPipeChunks
    /\ res' = write(res, "CHUNK")
    /\ UNCHANGED << options, routes, calls, req, bodyVars, pc, handlerCalls, caught,
                    result, pipe, sseVars >>

\* The piped stream ends: pipe ends res.
PipeEnd ==
    /\ pipe = "flowing"
    /\ pipe' = "ended"
    /\ res' = end(res, "")
    /\ UNCHANGED << options, routes, calls, req, bodyVars, pc, handlerCalls, caught,
                    result, sseVars >>

\* The piped stream fails: pipe does not end its destination on a source
\* error, and the listener, which has returned, has no catch left around it.
PipeError ==
    /\ pipe = "flowing"
    /\ pipe' = "failed"
    /\ UNCHANGED << options, routes, calls, req, bodyVars, res, pc, handlerCalls,
                    caught, result, sseVars >>

\* The awaited handler throws or rejects: catch (err) { handleError(err, res) }
HandlerThrows(err) ==
    /\ pc \in {"rpcHandler", "uploadHandler", "blobHandler", "sseHandler"}
    /\ caught' = err
    /\ res' = handleError(err, res)
    /\ pc' = "done"
    /\ UNCHANGED << options, routes, calls, req, bodyVars, handlerCalls, result, pipe,
                    sseVars >>

\* The listener calling runCleanup itself once the handler has returned.
SseHandlerReturns_RunsCleanup ==
    /\ pc = "sseHandler"
    /\ pc' = "done"
    /\ closed' = TRUE
    /\ IF closed THEN UNCHANGED << drain, drainIdx, invoked >>
       ELSE IF cleanups # << >>
            THEN /\ invoked' = Append(invoked, cleanups[1])
                 /\ drainIdx' = 1
                 /\ drain' = "awaiting"
            ELSE /\ drain' = "done"
                 /\ UNCHANGED << invoked, drainIdx >>
    /\ UNCHANGED << options, routes, calls, req, bodyVars, res, handlerCalls, caught,
                    result, pipe, cleanups, swallowed, listening, closeSignals,
                    emits >>

\* The listener ending the response once the handler has returned, as the
\* other kinds do.
SseHandlerReturns_EndsResponse ==
    /\ pc = "sseHandler"
    /\ pc' = "done"
    /\ res' = end(res, "")
    /\ UNCHANGED << options, routes, calls, req, bodyVars, handlerCalls,
                    caught, result, pipe, sseVars >>

\* sse: await route.handler(sseCtx); return
SseHandlerReturns ==
    /\ pc = "sseHandler"
    /\ pc' = "done"
    /\ UNCHANGED << options, routes, calls, req, bodyVars, res, handlerCalls, caught,
                    result, pipe, sseVars >>

\* ---------------------------------------------------------- the SSE session
\* One turn of `for (const fn of cleanups) { try { await fn() } catch {} }`:
\* the array iterator reads cleanups live; past its end the loop is over.
drainNext ==
    IF drainIdx < Len(cleanups)
    THEN /\ invoked' = Append(invoked, cleanups[drainIdx + 1])
         /\ drainIdx' = drainIdx + 1
         /\ drain' = "awaiting"
    ELSE /\ drain' = "done"
         /\ UNCHANGED << invoked, drainIdx >>

\* runCleanup without its `if (closed) return`: every close signal starts the
\* loop over cleanups again.
runCleanup_NoClosedCheck ==
    /\ closed' = TRUE
    /\ IF cleanups # << >>
       THEN /\ invoked' = Append(invoked, cleanups[1])
            /\ drainIdx' = 1
            /\ drain' = "awaiting"
       ELSE /\ drain' = "done"
            /\ UNCHANGED << invoked, drainIdx >>

\* const runCleanup = async () => { if (closed) return; closed = true; for ... }
runCleanup ==
    IF closed
    THEN UNCHANGED << closed, drain, drainIdx, invoked >>
    ELSE /\ closed' = TRUE
         /\ drainNext

\* req or res emits "close": the registered runCleanup runs.
CloseSignal ==
    /\ listening
    /\ closeSignals < MaxCloseSignals
    /\ closeSignals' = closeSignals + 1
    /\ runCleanup
    /\ UNCHANGED << options, routes, calls, req, bodyVars, res, pc, handlerCalls,
                    caught, result, pipe, cleanups, swallowed, listening,
                    emits >>

\* The loop without its try/catch: a failing callback ends it.
CleanupSettles_StopsOnThrow(threw) ==
    /\ drain = "awaiting"
    /\ swallowed' = IF threw THEN swallowed + 1 ELSE swallowed
    /\ IF threw
       THEN drain' = "done" /\ UNCHANGED << invoked, drainIdx >>
       ELSE drainNext
    /\ UNCHANGED << options, routes, calls, req, bodyVars, res, pc,
                    handlerCalls, caught, result, pipe, cleanups, closed,
                    listening, closeSignals, emits >>

\* The awaited fn() settles; a rejection or throw is swallowed by catch {}.
CleanupSettles(threw) ==
    /\ drain = "awaiting"
    /\ swallowed' = IF threw THEN swallowed + 1 ELSE swallowed
    /\ drainNext
    /\ UNCHANGED << options, routes, calls, req, bodyVars, res, pc, handlerCalls,
                    caught, result, pipe, cleanups, closed, listening,
                    closeSignals, emits >>

\* onCleanup(fn) { cleanups.push(fn) }, called by the running handler.
OnCleanup(fn) ==
    /\ pc = "sseHandler"
    /\ Len(cleanups) < MaxCleanups
    /\ cleanups' = Append(cleanups, fn)
    /\ UNCHANGED << options, routes, calls, req, bodyVars, res, pc, handlerCalls,
                    caught, result, pipe, closed, drain, drainIdx, invoked,
                    swallowed, listening, closeSignals, emits >>

\* `data: ${JSON.stringify(data)}\n\n` for the number n
DataLine(n) == "data: " \o stringify([t |-> "number", v |-> n]).text \o "\n\n"

\* emit without its `if (!closed)`.
emit_NoClosedCheck(r, n) == write(write(r, "event: tick\n"), DataLine(n))

\* emit(event, data) { if (!closed) { res.write(`event: ...`); res.write(
\* `data: ...`) } }: here the event "tick" with the number n as its data.
emit(r, n) ==
    IF ~closed THEN write(write(r, "event: tick\n"), DataLine(n))
    ELSE r

\* The handler, or a timer it started, calls emit; the n-th call carries n.
Emit ==
    /\ listening
    /\ caught = NoError
    /\ emits < MaxEmits
    /\ emits' = emits + 1
    /\ res' = emit(res, emits + 1)
    /\ UNCHANGED << options, routes, calls, req, bodyVars, pc, handlerCalls, caught,
                    result, pipe, cleanups, closed, drain, drainIdx, invoked,
                    swallowed, listening, closeSignals >>

\* A cleanup callback that the loop is awaiting calls emit.
CleanupEmits ==
    /\ drain = "awaiting"
    /\ emits < MaxEmits
    /\ emits' = emits + 1
    /\ res' = emit(res, emits + 1)
    /\ UNCHANGED << options, routes, calls, req, bodyVars, pc, handlerCalls,
                    caught, result, pipe, cleanups, closed, drain, drainIdx,
                    invoked, swallowed, listening, closeSignals >>

\* ---------------------------------------------------------- specifications
\* One request through the dispatcher, over a connection that stays open.
Next ==
    \/ Preflight
    \/ NotFound
    \/ UploadMethodNotAllowed
    \/ UploadInvoke
    \/ BeginReadBody
    \/ \E chunk \in Chunks : ReadChunk(chunk)
    \/ ReadBodyFails
    \/ MethodNotAllowed
    \/ RpcInvoke
    \/ BlobInvoke
    \/ SseInvoke
    \/ \E v \in Results : RpcHandlerReturns(v)
    \/ \E chunk \in Chunks : UploadClientSends(chunk)
    \/ UploadHandlerReads
    \/ UploadHandlerReturns
    \/ BlobHandlerReturnsBuffer
    \/ BlobHandlerReturnsStream
    \/ PipeData
    \/ PipeEnd
    \/ PipeError
    \/ \E err \in Thrown : HandlerThrows(err)
    \/ SseHandlerReturns
    \/ Emit

Spec == Init /\ [][Next]_vars

\* A GET without a body to the SSE route, and the session it opens.
InitSse ==
    \E opts \in OptionSets :
        InitWith(opts, [method |-> "GET", url |-> "/sse", bodySet |-> FALSE,
                        body |-> << >>])

NextSse ==
    \/ BeginReadBody
    \/ SseInvoke
    \/ \E fn \in Callbacks : OnCleanup(fn)
    \/ Emit
    \/ SseHandlerReturns
    \/ \E err \in Thrown : HandlerThrows(err)
    \/ CloseSignal
    \/ \E threw \in BOOLEAN : CleanupSettles(threw)
    \/ CleanupEmits

SpecSse == InitSse /\ [][NextSse]_vars

\* A freshly constructed Api, before any request: the application registers
\* its routes.
InitRegistry ==
    \E opts \in OptionSets :
        /\ RequestInitial(opts, [method |-> "GET", url |-> "/rpc", bodySet |-> FALSE,
                           body |-> << >>])
        /\ routes = NoRoutes
        /\ calls = << >>

\* The paths the application registers under: one path and its near miss.
RegPaths == {"/rpc", "/rpc/"}

\* rpc(path, cb) / sse(path, cb) / blob(path, cb) / upload(path, cb)
Registration(kind, path, cb) ==
    /\ Len(calls) < MaxRegistrations
    /\ routes' = register(routes, path, kind, cb)
    /\ calls' = Append(calls, [kind |-> kind, path |-> path, handler |-> cb])
    /\ UNCHANGED << options, req, bodyVars, res, pc, handlerCalls, caught,
                    result, pipe, sseVars >>

rpc(path, cb) == Registration("rpc", path, cb)

sse(path, cb) == Registration("sse", path, cb)

blob(path, cb) == Registration("blob", path, cb)

upload(path, cb) == Registration("upload", path, cb)

NextRegistry ==
    \/ \E path \in RegPaths, cb \in Handlers : rpc(path, cb)
    \/ \E path \in RegPaths, cb \in Handlers : sse(path, cb)
    \/ \E path \in RegPaths, cb \in Handlers : blob(path, cb)
    \/ \E path \in RegPaths, cb \in Handlers : upload(path, cb)

SpecRegistry == InitRegistry /\ [][NextRegistry]_vars

\* ------------------------------------------------------------------ claims
\* The SSE handler has returned normally.
SseHandlerReturned ==
    route = "sse" /\ handlerCalls = 1 /\ pc = "done" /\ caught = NoError

\* C1: the callbacks registered before the disconnect are each invoked exactly
\* once, in registration order (what has been invoked is always the front of
\* cleanups, and when the loop finishes it is all of cleanups), and a close
\* signal that finds the session closed invokes nothing.
C1_CleanupOnceInOrder ==
    [][ /\ invoked' = SubSeq(cleanups', 1, drainIdx')
        /\ (~closed /\ closed' /\ cleanups # << >>) => invoked' = << cleanups[1] >>
        /\ (drain # "done" /\ drain' = "done") => invoked' = cleanups
        /\ (closed /\ closeSignals' # closeSignals) =>
               (invoked' = invoked /\ drain' = drain /\ drainIdx' = drainIdx)
      ]_vars

\* Two different callbacks registered, the client gone, the request close,
\* the response close and a repeated close delivered, and the loop finished
\* with both callbacks invoked.
C1_Witness ==
    /\ closed
    /\ drain = "done"
    /\ closeSignals = 3
    /\ Len(invoked) = 2
    /\ invoked[1] # invoked[2]

\* C2 as stated: the handler returning before any disconnect ends the
\* session and runs the registered callbacks.
C2_HandlerReturnEndsSession ==
    (SseHandlerReturned /\ closeSignals = 0 /\ cleanups # << >>) =>
        (closed /\ invoked # << >>)

\* C2 as amended: only a close signal ends the session. While none has come,
\* also after the handler has returned, the session is open and no callback
\* has run; the loop that the first close signal starts after the handler's
\* return ends with every registered callback invoked, in registration order.
C2_OnlyDisconnectEndsSession ==
    /\ [](closed <=> closeSignals > 0)
    /\ [](~closed => (invoked = << >> /\ drain = "idle"))
    /\ [][ (SseHandlerReturned /\ ~closed /\ closed') =>
               (IF cleanups = << >> THEN drain' = "done"
                ELSE invoked' = << cleanups[1] >>) ]_vars
    /\ [][ (SseHandlerReturned /\ drain # "done" /\ drain' = "done") =>
               invoked' = cleanups ]_vars

\* The handler has registered a callback and returned, no close signal has
\* come, and the session is still open with nothing run.
C2_Witness ==
    /\ SseHandlerReturned
    /\ cleanups # << >>
    /\ closeSignals = 0
    /\ ~closed
    /\ invoked = << >>

\* C3: once the session has ended (the loop is over) and the handler has
\* finished, every callback passed to onCleanup has been invoked exactly once.
C3_EveryCallbackRuns ==
    (closed /\ drain = "done" /\ pc = "done") => invoked = cleanups

\* The response as the client has it: exactly this status and this one body.
Answered(status, text) ==
    /\ res.ended
    /\ res.wireStatus = status
    /\ res.chunks = IF text = "" THEN << >> ELSE << text >>

\* C4: a request to a registered route with a method other than the one its
\* kind requires is answered 405 "METHOD_NOT_ALLOWED", whatever its body, and
\* the handler is not invoked. (The OPTIONS preflight and a request the
\* client aborts are set aside: the statement is about delivered requests.)
C4_WrongMethodIs405 ==
    ( /\ route # "none"
      /\ req.method \notin {requiredMethod(route), "OPTIONS"}
      /\ caught = NoError
      /\ pc = "done" ) =>
        (Answered(405, "\"METHOD_NOT_ALLOWED\"") /\ handlerCalls = 0)

\* C5 as stated: a request to an unregistered path is answered 404
\* "NOT_FOUND" for every method.
C5_UnregisteredIs404 ==
    (route = "none" /\ pc = "done") =>
        (Answered(404, "\"NOT_FOUND\"") /\ handlerCalls = 0)

\* C5 as amended: a request to an unregistered path is answered 404
\* "NOT_FOUND" for every method other than OPTIONS, and an OPTIONS request
\* to it is answered 204 with an empty body; no handler is invoked.
C5_UnregisteredIs404ExceptOptions ==
    (route = "none" /\ pc = "done") =>
        /\ handlerCalls = 0
        /\ IF req.method = "OPTIONS" THEN Answered(204, "")
           ELSE Answered(404, "\"NOT_FOUND\"")

\* A PUT to the unregistered path has been answered.
C5_Witness ==
    route = "none" /\ req.method = "PUT" /\ pc = "done" /\ res.wireStatus = 404

\* C6: in the read loop of a registered rpc, sse or blob route the running
\* count is the bytes received; once it exceeds maxRequestSize the response
\* is 413 "PAYLOAD_TOO_LARGE", the listener is done (no further chunk is read:
\* the count had not exceeded the limit before this chunk) and the handler is
\* not invoked; a 413 is only ever the answer to a count above the limit.
C6_SizeLimit ==
    /\ route \in {"rpc", "sse", "blob"} => size = Len(sent)
    /\ size > maxSize(options) =>
          /\ route \in {"rpc", "sse", "blob"}
          /\ Answered(413, "\"PAYLOAD_TOO_LARGE\"")
          /\ pc = "done"
          /\ handlerCalls = 0
          /\ size - MaxChunkLen <= maxSize(options)
    /\ (res.statusCode = 413 \/ res.wireStatus = 413) => size > maxSize(options)
    /\ (handlerCalls > 0 /\ route # "upload") => req.bodySet

\* The second chunk took the count over the configured limit and the request
\* was rejected.
C6_Witness ==
    /\ chunksRead = 2
    /\ size = maxSize(options) + 1
    /\ res.wireStatus = 413

\* C7: the body the rpc handler sees is the UTF-8 decoding of the whole byte
\* sequence sent, wherever the chunk boundaries fell.
C7_BodyIsDecodingOfWhole ==
    (pc = "rpcHandler") => (req.bodySet /\ req.body = toStringUtf8(sent))

\* C8: once the listener of a request to a non-SSE route is done (its handler,
\* if any, has returned or thrown) and no piped stream is still flowing, the
\* response is ended.
C8_ResponseFinalized ==
    (route # "sse" /\ pc = "done" /\ pipe # "flowing") =>
        (res.ended /\ res.headersSent)

\* The status and the code the error classes fix.
ErrorTable ==
    [ NotFoundError |-> << 404, "NOT_FOUND" >>,
      MethodNotAllowedError |-> << 405, "METHOD_NOT_ALLOWED" >>,
      BadRequestError |-> << 400, "BAD_REQUEST" >>,
      UnauthorizedError |-> << 401, "UNAUTHORIZED" >>,
      ForbiddenError |-> << 403, "FORBIDDEN" >>,
      InternalServerError |-> << 500, "INTERNAL_ERROR" >>,
      NotImplementedError |-> << 501, "NOT_IMPLEMENTED" >> ]

\* The mapping the claim states: status and code of a thrown value.
Mapped(err) ==
    IF err.kind = "HttpError" THEN ErrorTable[err.cls]
    ELSE IF err.kind = "ValidationError" THEN << 400, err.code >>
         ELSE << 500, "INTERNAL_ERROR" >>

\* C9: whatever value the listener's catch receives, the status is the one
\* the mapping gives it and the last thing written is the quoted code, with
\* the response ended; nothing written is the value's message; and when
\* nothing had been written before, the client gets exactly that status and
\* that body.
C9_ErrorMapping ==
    caught # NoError =>
        /\ res.ended
        /\ res.statusCode = Mapped(caught)[1]
        /\ res.chunks # << >>
        /\ res.chunks[Len(res.chunks)] = Quote(Mapped(caught)[2])
        /\ \A i \in 1..Len(res.chunks) : res.chunks[i] # caught.message
        /\ emits = 0 => Answered(Mapped(caught)[1], Quote(Mapped(caught)[2]))

\* An upload handler threw a ForbiddenError and the client got 403 "FORBIDDEN".
C9_Witness ==
    /\ caught.cls = "ForbiddenError"
    /\ route = "upload"
    /\ Answered(403, "\"FORBIDDEN\"")

\* C10: after a POST to the rpc route whose handler returned normally, the
\* response is 200; an undefined result gives an empty body and no
\* content-type header, any other result (that JSON.stringify accepts) gives
\* the JSON text as the body and content-type: application/json.
C10_RpcResponse ==
    ( /\ route = "rpc"
      /\ handlerCalls = 1
      /\ pc = "done"
      /\ caught = NoError ) =>
        /\ res.ended
        /\ res.wireStatus = 200
        /\ IF result = JsUndefined
           THEN /\ res.chunks = << >>
                /\ \A h \in res.wireHeaders : h[1] # "content-type"
           ELSE /\ << "content-type", "application/json" >> \in res.wireHeaders
                /\ res.chunks = IF stringify(result).defined
                                THEN << stringify(result).text >> ELSE << >>
                /\ result = [t |-> "object",
                             fields |-> << << "a", [t |-> "number", v |-> 1] >> >>]
                     => res.chunks = << "{\"a\":1}" >>

\* The rpc handler returned {a: 1} and the response carries its JSON text.
C10_Witness ==
    /\ route = "rpc"
    /\ pc = "done"
    /\ caught = NoError
    /\ result = [t |-> "object",
                 fields |-> << << "a", [t |-> "number", v |-> 1] >> >>]
    /\ res.chunks = << "{\"a\":1}" >>

\* C11: for a POST to the upload route the core's read loop takes no chunk,
\* counts no byte and never sets req.body; what the handler has read from
\* ctx.req followed by what still waits in the stream is exactly what the
\* client sent, in order; nothing is written while the handler runs, a normal
\* return is answered 200 "OK" (however many bytes were sent) and a throw is
\* answered with the mapped error.
C11_UploadPassthrough ==
    (route = "upload" /\ req.method = "POST") =>
        /\ chunksRead = 0
        /\ size = 0
        /\ ~req.bodySet
        /\ seen \o inbound = sentChunks
        /\ pc \in {"start", "uploadHandler"} => (~res.headersSent /\ ~res.ended)
        /\ (pc = "done" /\ caught = NoError) => Answered(200, "\"OK\"")
        /\ (pc = "done" /\ caught # NoError) =>
               Answered(Mapped(caught)[1], Quote(Mapped(caught)[2]))

\* The client sent two chunks, more bytes in all than the configured
\* maxRequestSize; the handler read both, returned, and the answer is "OK".
C11_Witness ==
    /\ route = "upload"
    /\ Len(seen) = 2
    /\ seen = sentChunks
    /\ Len(sent) > maxSize(options)
    /\ Answered(200, "\"OK\"")

\* C12: an OPTIONS request is answered 204 with an empty body, with no route
\* lookup, body read or handler call, when CORS is configured; when it is not
\* configured the request is routed like any other method (404 for an
\* unregistered path, no 204 for a registered one).
C12_PreflightNeedsCors ==
    (req.method = "OPTIONS" /\ pc = "done") =>
        IF hasCors(options)
        THEN Answered(204, "") /\ handlerCalls = 0 /\ chunksRead = 0
        ELSE IF route = "none" THEN Answered(404, "\"NOT_FOUND\"")
             ELSE res.wireStatus # 204

\* The three headers of the SSE path.
SseHeaders ==
    { << "content-type", "text/event-stream" >>,
      << "cache-control", "no-cache" >>,
      << "connection", "keep-alive" >> }

\* C13: once the SSE handler has been invoked the three SSE headers are on
\* the wire, whether or not the handler has called emit.
C13_SseHeadersSentAtOnce ==
    (route = "sse" /\ handlerCalls = 1) =>
        (res.headersSent /\ SseHeaders \subseteq res.wireHeaders)

CorsHeaderNames ==
    { "Access-Control-Allow-Origin", "Access-Control-Allow-Credentials",
      "Access-Control-Allow-Headers" }

\* C14: with CORS configured every response that has gone out carries the
\* three Access-Control headers (the origin being the configured one);
\* without it none of the three is ever set.
C14_CorsOnEveryResponse ==
    /\ (hasCors(options) /\ res.headersSent) =>
          { << "Access-Control-Allow-Origin", options.cors.origin >>,
            << "Access-Control-Allow-Credentials", "true" >>,
            << "Access-Control-Allow-Headers", "content-type" >> }
              \subseteq res.wireHeaders
    /\ ~hasCors(options) =>
          \A h \in res.headers \cup res.wireHeaders : h[1] \notin CorsHeaderNames

\* With CORS configured, a handler threw a ForbiddenError and the 403 went
\* out.
C14_Witness ==
    /\ hasCors(options)
    /\ caught.cls = "ForbiddenError"
    /\ Answered(403, "\"FORBIDDEN\"")

\* The route a path has after the calls cs, read off the calls themselves:
\* that of the last call for exactly this path, none when there is no such call.
RECURSIVE LastRegistration(_, _)
LastRegistration(cs, p) ==
    IF cs = << >> THEN [kind |-> "none", handler |-> "none"]
    ELSE LET c == cs[Len(cs)]
         IN IF c.path = p THEN [kind |-> c.kind, handler |-> c.handler]
            ELSE LastRegistration(SubSeq(cs, 1, Len(cs) - 1), p)

\* C15: after any sequence of registrations every path resolves to the kind
\* and handler of the last registration made for exactly that path, and a
\* registration leaves the routes of all other paths as they were.
C15_LastRegistrationWins ==
    /\ [](\A p \in Paths : routes[p] = LastRegistration(calls, p))
    /\ [][ \A p \in Paths :
             p # calls'[Len(calls')].path => routes'[p] = routes[p] ]_vars

\* A path registered as one kind, then the near-miss path registered, then
\* the first path registered again as another kind with another handler: the
\* first path resolves to the third call, the near miss to the second.
C15_Witness ==
    /\ Len(calls) = 3
    /\ calls[1].path = calls[3].path
    /\ calls[2].path # calls[1].path
    /\ calls[1].kind # calls[3].kind
    /\ calls[1].handler # calls[3].handler
    /\ routes[calls[1].path] = [kind |-> calls[3].kind, handler |-> calls[3].handler]
    /\ routes[calls[2].path] = [kind |-> calls[2].kind, handler |-> calls[2].handler]

\* C16: a request to a registered rpc, sse or blob route with a method other
\* than the required one is answered 405 without the read loop having taken
\* a single chunk, whatever the size of its body. (As in C4, the OPTIONS
\* preflight and a request the client aborts are set aside.)
C16_MethodCheckBeforeBody ==
    ( /\ route \in {"rpc", "sse", "blob"}
      /\ req.method \notin {requiredMethod(route), "OPTIONS"} ) =>
        /\ chunksRead = 0
        /\ (pc = "done" /\ caught = NoError) =>
               Answered(405, "\"METHOD_NOT_ALLOWED\"")

\* C17: the handler is invoked at most once; when an rpc or blob handler has
\* been invoked the body had been read to its end within the limit and
\* assigned to req.body, and nothing of the request is read afterwards; a
\* rejected body means no handler call; and while an rpc, upload or blob
\* handler runs the dispatcher has written nothing and ended nothing.
C17_StepsInOrder ==
    /\ [](handlerCalls <= 1)
    /\ []((route \in {"rpc", "blob"} /\ handlerCalls = 1) =>
             (req.bodySet /\ req.body = body /\ size = Len(sent)
              /\ size <= maxSize(options)))
    /\ [](size > maxSize(options) => handlerCalls = 0)
    /\ [][ (route \in {"rpc", "blob"} /\ handlerCalls = 1) =>
               << sent, chunksRead, body, size, req >>'
                   = << sent, chunksRead, body, size, req >> ]_vars
    /\ [](pc \in {"rpcHandler", "uploadHandler", "blobHandler"} =>
             (~res.headersSent /\ ~res.ended /\ res.chunks = << >>))

\* The rpc handler is running on a body that came in two chunks, and nothing
\* has been written yet.
C17_Witness ==
    /\ pc = "rpcHandler"
    /\ handlerCalls = 1
    /\ chunksRead = 2
    /\ req.bodySet
    /\ ~res.headersSent

\* C18: when the callback the loop is awaiting throws or rejects, the loop
\* goes on exactly as after a success (the next registered callback is
\* invoked, or the loop is over when there is none), and nothing of it
\* reaches the listener's catch or the response.
C18_CleanupFailureSwallowed ==
    /\ [][ swallowed' = swallowed + 1 =>
             /\ res' = res
             /\ caught' = caught
             /\ pc' = pc
             /\ IF drainIdx < Len(cleanups)
                THEN /\ invoked' = Append(invoked, cleanups[drainIdx + 1])
                     /\ drain' = "awaiting"
                ELSE /\ invoked' = invoked
                     /\ drain' = "done" ]_vars
    /\ [](swallowed <= Len(invoked))

\* Two callbacks were registered, both failed, both were invoked, the loop
\* is over, and no error has been caught or written.
C18_Witness ==
    /\ swallowed = 2
    /\ Len(cleanups) = 2
    /\ invoked = cleanups
    /\ drain = "done"
    /\ caught = NoError
    /\ ~res.ended

C20_SessionOutlivesHandler ==
    /\ []((SseHandlerReturned /\ closeSignals = 0) =>
             (~res.ended /\ ~closed /\ invoked = << >> /\ drain = "idle"))
    /\ [][ (SseHandlerReturned /\ ~closed /\ emits' # emits) =>
               Len(res'.chunks) = Len(res.chunks) + 2 ]_vars
    /\ [][ (~closed /\ closed') => closeSignals' = closeSignals + 1 ]_vars

\* The handler has returned, no close signal has come, and two emit calls
\* have written their frames to the still open response.
C20_Witness ==
    /\ SseHandlerReturned
    /\ closeSignals = 0
    /\ ~res.ended
    /\ emits = 2
    /\ Len(res.chunks) = 4

====
